---- MODULE Spec2Model ----
(***************************************************************************)
(* A model of code_generator/src/writer.rs: the FileWriter walker that     *)
(* turns a WSDL/XSD tree into source text, and the ModWriter staging       *)
(* buffers (one per Section) it writes through.                            *)
(*                                                                         *)
(* Text is a sequence of tokens.  A token stands for the result of one     *)
(* format!/literal of the source: its template id and the interpolated     *)
(* arguments.  The empty string is the empty sequence of tokens.  Names    *)
(* and types are strings of characters: sequences of one-character         *)
(* strings, so that split_type and the case conversions are computed.      *)
(***************************************************************************)
EXTENDS Integers, Sequences, FiniteSets, TLC

VARIABLES
    current_section,    \* FileWriter.current_section
    level,              \* FileWriter.level
    mod_writers,        \* FileWriter.mod_writers : Section -> ModWriter
    writer,             \* FileWriter.writer : Option of the output sink
    target_name_space,  \* FileWriter.target_name_space : Option
    pc,                 \* where the run is: init, walk, output, done, aborted
    stack,              \* the walker's call stack, innermost frame last
    visited,            \* sections the output loop has iterated so far
    fuel,               \* constructs the input may still contain (bound)
    scope,              \* history: the deferred scope now open / last closed
    emit_log,           \* history: one entry per iteration of the output loop
    ref_out,            \* history: section text of the reference iteration order
    last_msg,           \* history: Option, the last message node and its text
    imports_done,       \* history: imported files traversed to their end
    last,               \* history: the last handler run, its node, the state before
    peak,               \* history: deepest level since the level was last 0
    expect_out,         \* history: per section, its constructs' text in visit order
    import_ctx,         \* history: the context at each open import, and at the last return
    ft_in,              \* input of the fetch_type call under test
    ft_out              \* Option: result of the fetch_type call under test

vars == <<current_section, level, mod_writers, writer, target_name_space,
          pc, stack, visited, fuel, scope, emit_log, ref_out, last_msg,
          imports_done, last, peak, expect_out, import_ctx, ft_in, ft_out>>

(***************************************************************************)
(* Bounds of the model.                                                    *)
(***************************************************************************)
MaxPortNodes == 4      \* portTypes + operations of a SpecPorts document
MaxBindingNodes == 4   \* bindings + binding operations of a SpecBindings document
MaxMessageNodes == 3   \* messages of a SpecMessages document
MaxNodes == 2          \* constructs (messages, imports) of a Spec document
MaxTypeNodes == 4      \* elements, records and complexContents of a SpecTypes document
MaxWalkNodes == 3      \* constructs of a SpecWalk document
MaxImportNodes == 3    \* constructs of a SpecImports document
MaxCopyErrors == 1     \* failing copies to the sink in one output loop

(***************************************************************************)
(* Option values: None is the empty sequence, Some(x) a one-element one.   *)
(***************************************************************************)
None == <<>>
Some(x) == <<x>>
IsSome(o) == Len(o) = 1
Get(o) == o[1]

(***************************************************************************)
(* Characters.                                                             *)
(***************************************************************************)
LowerChars == <<"a","b","c","d","e","f","g","h","i","j","k","l","m",
                "n","o","p","q","r","s","t","u","v","w","x","y","z">>
UpperChars == <<"A","B","C","D","E","F","G","H","I","J","K","L","M",
                "N","O","P","Q","R","S","T","U","V","W","X","Y","Z">>
DigitChars == <<"0","1","2","3","4","5","6","7","8","9">>

InSeq(c, s) == \E i \in 1..Len(s) : s[i] = c
IndexOf(c, s) == CHOOSE i \in 1..Len(s) : s[i] = c
char_is_lowercase(c) == InSeq(c, LowerChars)
char_is_uppercase(c) == InSeq(c, UpperChars)
char_is_numeric(c) == InSeq(c, DigitChars)
is_not_alphanumeric(c) ==
    ~(char_is_lowercase(c) \/ char_is_uppercase(c) \/ char_is_numeric(c))
to_ascii_uppercase(c) ==
    IF char_is_lowercase(c) THEN UpperChars[IndexOf(c, LowerChars)] ELSE c
to_ascii_lowercase(c) ==
    IF char_is_uppercase(c) THEN LowerChars[IndexOf(c, UpperChars)] ELSE c

(***************************************************************************)
(* inflector::cases::pascalcase::to_pascal_case, as to_case_camel_like     *)
(* runs it: new_word starts TRUE, last_char starts as a blank.             *)
(***************************************************************************)
RECURSIVE camel_like(_, _, _, _, _, _)
camel_like(s, i, new_word, last_char, found_real_char, result) ==
    IF i > Len(s) THEN result
    ELSE LET c == s[i] IN
         IF is_not_alphanumeric(c) /\ found_real_char
           THEN camel_like(s, i + 1, TRUE, last_char, found_real_char, result)
         ELSE IF ~found_real_char /\ is_not_alphanumeric(c)
           THEN camel_like(s, i + 1, new_word, last_char, found_real_char, result)
         ELSE IF char_is_numeric(c)
           THEN camel_like(s, i + 1, TRUE, last_char, TRUE, Append(result, c))
         ELSE IF new_word \/ (char_is_lowercase(last_char) /\ char_is_uppercase(c))
           THEN camel_like(s, i + 1, FALSE, last_char, TRUE,
                           Append(result, to_ascii_uppercase(c)))
         ELSE camel_like(s, i + 1, new_word, c, TRUE,
                         Append(result, to_ascii_lowercase(c)))

to_pascal_case(s) == camel_like(s, 1, TRUE, " ", FALSE, <<>>)

(***************************************************************************)
(* inflector::cases::snakecase::to_snake_case, as to_case_snake_like runs  *)
(* it: separators become one "_", an upper-case letter next to a           *)
(* lower-case one starts a new word.                                       *)
(***************************************************************************)
next_or_previous_char_is_lowercase(s, i) ==
    \/ (i < Len(s) /\ char_is_lowercase(s[i + 1]))
    \/ (i > 1 /\ char_is_lowercase(s[i - 1]))

RECURSIVE snake_like(_, _, _, _)
snake_like(s, i, first_character, result) ==
    IF i > Len(s) THEN result
    ELSE LET c == s[i] IN
         IF is_not_alphanumeric(c)
           THEN IF ~first_character
                  THEN snake_like(s, i + 1, TRUE, Append(result, "_"))
                  ELSE snake_like(s, i + 1, first_character, result)
         ELSE IF ~first_character /\ char_is_uppercase(c)
                 /\ next_or_previous_char_is_lowercase(s, i)
           THEN snake_like(s, i + 1, FALSE,
                           result \o <<"_", to_ascii_lowercase(c)>>)
         ELSE snake_like(s, i + 1, FALSE, Append(result, to_ascii_lowercase(c)))

to_snake_case(s) == snake_like(s, 1, TRUE, <<>>)

(***************************************************************************)
(* FileWriter::split_type and FileWriter::fetch_type.                      *)
(***************************************************************************)
\* node_type.split(':').last(): the text after the last ':' (all of it when
\* there is none); split never yields an empty iterator, so the None arm of
\* the source is dead.
split_type(node_type) ==
    LET colons == {i \in 1..Len(node_type) : node_type[i] = ":"}
        start == IF colons = {} THEN 1
                 ELSE 1 + CHOOSE i \in colons : \A j \in colons : j <= i
    IN SubSeq(node_type, start, Len(node_type))

S_string == <<"s","t","r","i","n","g">>
S_base64Binary == <<"b","a","s","e","6","4","B","i","n","a","r","y">>
S_decimal == <<"d","e","c","i","m","a","l">>
S_integer == <<"i","n","t","e","g","e","r">>
S_int == <<"i","n","t">>
S_long == <<"l","o","n","g">>
S_short == <<"s","h","o","r","t">>
S_boolean == <<"b","o","o","l","e","a","n">>
S_date == <<"d","a","t","e">>
S_time == <<"t","i","m","e">>
S_xs_time == <<"x","s",":","t","i","m","e">>

T_String == <<"S","t","r","i","n","g">>
T_f64 == <<"f","6","4">>
T_u64 == <<"u","6","4">>
T_u8 == <<"u","8">>
T_bool == <<"b","o","o","l">>
T_SystemTime == <<"S","y","s","t","e","m","T","i","m","e">>

fetch_type(node_type) ==
    LET v == split_type(node_type) IN
    IF v = S_string \/ v = S_base64Binary THEN T_String
    ELSE IF v = S_decimal THEN T_f64
    ELSE IF v = S_integer \/ v = S_int \/ v = S_long THEN T_u64
    ELSE IF v = S_short THEN T_u8
    ELSE IF v = S_boolean THEN T_bool
    ELSE IF v = S_date \/ v = S_xs_time THEN T_SystemTime
    ELSE to_pascal_case(v)

\* FileWriter::shield_reserved_names
S_type == <<"t","y","p","e">>
S_rs_type == <<"r","s","_","t","y","p","e">>
shield_reserved_names(type_name) ==
    IF type_name = S_type THEN S_rs_type ELSE type_name

(***************************************************************************)
(* Strings built by format!: the template's literal pieces and the         *)
(* interpolated arguments.  Two such values are the same text exactly when *)
(* pieces and arguments agree (the arguments are identifiers).             *)
(***************************************************************************)
Fmt(pieces, args) == [k |-> pieces, args |-> args]
EmptyString == Fmt(<<>>, <<>>)
Lit(piece) == Fmt(<<piece>>, <<>>)
FmtCat(a, b) == [k |-> a.k \o b.k, args |-> a.args \o b.args]
\* as_bytes(): what write_all receives; the empty string is no bytes at all
as_bytes(str) == IF str = EmptyString THEN <<>> ELSE <<str>>

MESSAGES_MOD == <<"m","e","s","s","a","g","e","s">>
TYPES_MOD == <<"t","y","p","e","s">>
PORTS_MOD == <<"p","o","r","t","s">>
BINDINGS_MOD == <<"b","i","n","d","i","n","g","s">>

Sections == {"Root", "Types", "Messages", "PortTypes", "Bindings"}

(***************************************************************************)
(* std::io::Cursor<Vec<u8>>: data and position, in tokens.                 *)
(***************************************************************************)
NewCursor == [data |-> <<>>, pos |-> 0]
\* Write for Cursor<Vec<u8>>: overwrites from the position, extends the vector
cursor_write_all(c, bytes) ==
    [data |-> SubSeq(c.data, 1, c.pos) \o bytes
              \o SubSeq(c.data, c.pos + Len(bytes) + 1, Len(c.data)),
     pos |-> c.pos + Len(bytes)]
cursor_set_position(c, p) == [c EXCEPT !.pos = p]
\* what a reader gets from the cursor until end of data
cursor_rest(c) == SubSeq(c.data, c.pos + 1, Len(c.data))
\* io::copy(reader, writer): the pair after the copy
io_copy(reader, w) ==
    [reader |-> cursor_set_position(reader, Len(reader.data)),
     writer |-> cursor_write_all(w, cursor_rest(reader))]

(***************************************************************************)
(* ModWriter.                                                              *)
(***************************************************************************)
MW_write(mw, buf, lvl) ==
    IF lvl = 0
      THEN [mw EXCEPT !.final_stage = cursor_write_all(@, as_bytes(buf))]
    ELSE IF lvl - 1 < Len(mw.buffers)
      THEN [mw EXCEPT !.buffers[lvl] = cursor_write_all(@, as_bytes(buf))]
    ELSE mw

MW_print_header(mw) ==
    MW_write(mw, Lit("use yaserde::{{YaSerialize, YaDeserialize}};\n\n"), 0)

MW_print_mod_header(mw, mod_name) ==
    MW_write(
      MW_print_header(MW_write(mw, Fmt(<<"pub mod {} {{\n">>, <<mod_name>>), 0)),
      Lit("use super::*;\n\n"), 0)

MW_new(section) ==
    LET mw == [section |-> section,
               buffers |-> <<>>,
               delayed_buffer |-> NewCursor,
               final_stage |-> NewCursor,
               level |-> 0,
               defined_types |-> <<>>]
    IN CASE section = "Root" -> mw
         [] section = "Types" -> MW_print_mod_header(mw, TYPES_MOD)
         [] section = "Messages" -> MW_print_mod_header(mw, MESSAGES_MOD)
         [] section = "PortTypes" -> MW_print_mod_header(mw, PORTS_MOD)
         [] section = "Bindings" -> MW_print_mod_header(mw, BINDINGS_MOD)

\* a faulty variant: the Root section is closed like a module
MW_print_footer_all(mw) ==
    MW_write(mw, Lit("}\n\n"), 0)

MW_print_footer(mw) ==
    IF mw.section = "Root" THEN mw ELSE MW_write(mw, Lit("}\n\n"), 0)

\* a faulty variant: the first buffer is copied first
RECURSIVE MW_flush_buffers_fifo(_)
MW_flush_buffers_fifo(mw) ==
    IF mw.buffers = <<>> THEN mw
    ELSE LET cp == io_copy(cursor_set_position(mw.buffers[1], 0), mw.final_stage)
         IN MW_flush_buffers_fifo([mw EXCEPT !.buffers = Tail(@),
                                             !.final_stage = cp.writer])

\* while let Some(cursor) = buffers.pop(): the last buffer is copied first
RECURSIVE MW_flush_buffers(_)
MW_flush_buffers(mw) ==
    IF mw.buffers = <<>> THEN mw
    ELSE LET n == Len(mw.buffers)
             cp == io_copy(cursor_set_position(mw.buffers[n], 0), mw.final_stage)
         IN MW_flush_buffers([mw EXCEPT !.buffers = SubSeq(@, 1, n - 1),
                                        !.final_stage = cp.writer])

MW_flush_delayed_buffer(mw) ==
    LET d == cursor_set_position(mw.delayed_buffer, 0) IN
    IF mw.level = 0
      THEN LET cp == io_copy(d, mw.final_stage)
           IN [mw EXCEPT !.delayed_buffer = cp.reader, !.final_stage = cp.writer]
    ELSE IF mw.level - 1 < Len(mw.buffers)
      THEN LET cp == io_copy(d, mw.buffers[mw.level])
           IN [mw EXCEPT !.delayed_buffer = cp.reader,
                         !.buffers[mw.level] = cp.writer]
    ELSE [mw EXCEPT !.delayed_buffer = d]

\* a faulty variant: raising the level pushes no buffer
MW_set_level_no_push(mw, lvl) ==
    LET m1 == [mw EXCEPT !.level = lvl]
    IN IF lvl = 0 THEN MW_flush_buffers(m1) ELSE m1

\* a faulty variant: lowering the level drops the entries above it
MW_set_level_popping(mw, lvl) ==
    LET m1 == [mw EXCEPT !.level = lvl]
        m2 == IF lvl = 0 THEN MW_flush_buffers(m1)
              ELSE [m1 EXCEPT !.buffers = SubSeq(@, 1, IF lvl < Len(@) THEN lvl ELSE Len(@))]
    IN IF Len(m2.buffers) < m2.level
         THEN [m2 EXCEPT !.buffers = Append(@, NewCursor)]
         ELSE m2

MW_set_level(mw, lvl) ==
    LET m1 == [mw EXCEPT !.level = lvl]
        m2 == IF lvl = 0 THEN MW_flush_buffers(m1) ELSE m1
    IN IF Len(m2.buffers) < m2.level
         THEN [m2 EXCEPT !.buffers = Append(@, NewCursor)]
         ELSE m2

MW_delayed_write(mw, buf) ==
    [mw EXCEPT !.delayed_buffer = cursor_write_all(@, as_bytes(buf))]

\* the ModWriter after the call; the reader handed out is a clone of its
\* final_stage, read from position 0
MW_read_for_output(mw) ==
    [MW_print_footer(mw) EXCEPT !.final_stage = cursor_set_position(@, 0)]

MW_seen_type(mw, type_def) ==
    [mw EXCEPT !.defined_types = Append(@, type_def)]

MW_reset_defined_types(mw) == [mw EXCEPT !.defined_types = <<>>]

MW_have_seen_type(mw, type_def) == InSeq(type_def, mw.defined_types)

init_mod_writers == [s \in Sections |-> MW_new(s)]

(***************************************************************************)
(* FileWriter.  Its operators thread a record of the FileWriter's fields   *)
(* (and the history record `scope`, which only observes).                  *)
(***************************************************************************)
FW_write(fw, buf) ==
    [fw EXCEPT !.mod_writers[fw.current_section] = MW_write(@, buf, fw.level)]

FW_delayed_write(fw, buf) ==
    [fw EXCEPT !.mod_writers[fw.current_section] = MW_delayed_write(@, buf),
               !.scope.queued = @ \o as_bytes(buf)]

\* history: scope.flushed is the text the flush appended to final_stage
FW_flush_delayed_buffer(fw) ==
    LET old == fw.mod_writers[fw.current_section]
        new == MW_flush_delayed_buffer(old)
    IN [fw EXCEPT !.mod_writers[fw.current_section] = new,
                  !.scope.flushed = SubSeq(new.final_stage.data,
                                           Len(old.final_stage.data) + 1,
                                           Len(new.final_stage.data)),
                  !.scope.closed = TRUE]

FW_seen_type(fw, type_def) ==
    [fw EXCEPT !.mod_writers[fw.current_section] = MW_seen_type(@, type_def)]

FW_reset_defined_types(fw) ==
    [fw EXCEPT !.mod_writers[fw.current_section] = MW_reset_defined_types(@)]

FW_have_seen_type(fw, type_def) ==
    MW_have_seen_type(fw.mod_writers[fw.current_section], type_def)

\* a faulty variant: the level is recorded by the walker alone
FW_set_level_walker_only(fw, lvl) ==
    [fw EXCEPT !.level = lvl]

FW_set_level(fw, lvl) ==
    [fw EXCEPT !.level = lvl,
               !.mod_writers[fw.current_section] = MW_set_level(@, lvl)]

inc_level(fw) == FW_set_level(fw, fw.level + 1)
dec_level(fw) == FW_set_level(fw, fw.level - 1)

Preamble == Lit("use yaserde::{{YaSerialize, YaDeserialize}}; use std::io::{Read, Write}; use soap_client::soap::Header; use soap_client::envelop;")

\* a faulty variant: the preamble goes straight to the output sink
print_header_to_sink(fw) ==
    [fw EXCEPT !.writer = IF IsSome(@) THEN Some(Get(@) \o <<Preamble>>) ELSE @]

print_header(fw) == FW_write(fw, Preamble)

\* a faulty variant: switching starts the section left afresh
check_section_resetting(fw, target) ==
    IF fw.current_section # target
      THEN [fw EXCEPT !.current_section = target,
                      !.mod_writers[fw.current_section] = MW_new(fw.current_section)]
      ELSE fw

check_section(fw, target) ==
    IF fw.current_section # target
      THEN [fw EXCEPT !.current_section = target]
      ELSE fw

(***************************************************************************)
(* WSDL messages.  A message node: its name attribute and its part         *)
(* children in document order, each with its name and element attributes.  *)
(***************************************************************************)
print_part(fw, node) ==
    IF ~IsSome(node.name) THEN fw
    ELSE IF IsSome(node.element)
      THEN FW_write(
             FW_write(fw, Lit("\t#[yaserde(flatten)]\n")),
             Fmt(<<"\tpub {}: {}::{},\n">>,
                 <<shield_reserved_names(to_snake_case(Get(node.name))),
                   TYPES_MOD, fetch_type(Get(node.element))>>))
    ELSE fw

\* a faulty variant: the last part child is taken
maybe_part_last(node) ==
    IF node.parts = <<>> THEN None ELSE Some(node.parts[Len(node.parts)])

\* node.children().find(|child| child.has_tag_name("part"))
maybe_part(node) == IF node.parts = <<>> THEN None ELSE Some(node.parts[1])

\* a faulty variant: the derive line is written before the name is looked up
print_message_derive_first(fw, node) ==
    LET f1 == FW_write(check_section(fw, "Messages"),
                       Lit("#[derive(Debug, Default, YaSerialize, YaDeserialize)]\n"))
    IN IF ~IsSome(node.name) THEN f1
       ELSE LET name == Get(node.name)
                f2 == FW_write(f1, Fmt(<<"#[yaserde(rename = \"{}\", default)]\npub struct {} {{\n">>,
                                       <<name, to_pascal_case(name)>>))
                f3 == IF IsSome(maybe_part(node))
                        THEN print_part(f2, Get(maybe_part(node)))
                        ELSE f2
            IN FW_write(f3, Lit("}\n\n"))

print_message(fw, node) ==
    LET f0 == check_section(fw, "Messages") IN
    IF ~IsSome(node.name) THEN f0
    ELSE LET name == Get(node.name)
             f1 == FW_write(f0, Lit("#[derive(Debug, Default, YaSerialize, YaDeserialize)]\n"))
             f2 == FW_write(f1, Fmt(<<"#[yaserde(rename = \"{}\", default)]\npub struct {} {{\n">>,
                                    <<name, to_pascal_case(name)>>))
             f3 == IF IsSome(maybe_part(node))
                     THEN print_part(f2, Get(maybe_part(node)))
                     ELSE f2
         IN FW_write(f3, Lit("}\n\n"))

(***************************************************************************)
(* WSDL port types.  An operation node: its name attribute and its first   *)
(* input, output and fault children (None when it has none), each mapped   *)
(* by map_name_message to its (name, message) attributes.                  *)
(***************************************************************************)
alias_line(name, msg) ==
    Fmt(<<"pub type {} = {}::{};\n">>,
        <<to_pascal_case(name), MESSAGES_MOD, fetch_type(msg)>>)

BothSome(io) == IsSome(io) /\ IsSome(Get(io).name) /\ IsSome(Get(io).message)

input_type_template(node) ==
    IF BothSome(node.input)
      THEN alias_line(Get(Get(node.input).name), Get(Get(node.input).message))
      ELSE EmptyString

input_template(node) ==
    IF BothSome(node.input)
      THEN Fmt(<<"{}: {}">>, <<to_snake_case(Get(Get(node.input).name)),
                              to_pascal_case(Get(Get(node.input).name))>>)
      ELSE EmptyString

output_type_template(node) ==
    IF BothSome(node.output)
      THEN alias_line(Get(Get(node.output).name), Get(Get(node.output).message))
      ELSE EmptyString

\* a faulty variant: a fault yields its alias also when there is no output
fault_type_template_without_output(node) ==
    IF BothSome(node.fault)
      THEN Some(alias_line(Get(Get(node.fault).name), Get(Get(node.fault).message)))
      ELSE None

\* Option<String>
fault_type_template(node) ==
    IF BothSome(node.output) /\ BothSome(node.fault)
      THEN Some(alias_line(Get(Get(node.fault).name), Get(Get(node.fault).message)))
      ELSE None

output_template(node) ==
    IF BothSome(node.output)
      THEN IF BothSome(node.fault)
             THEN Fmt(<<"-> Result<{0}, {1}>">>,
                      <<to_pascal_case(Get(Get(node.output).name)),
                        to_pascal_case(Get(Get(node.fault).name))>>)
             ELSE Fmt(<<"-> {}">>, <<to_pascal_case(Get(Get(node.output).name))>>)
      ELSE EmptyString

queue_port_types(fw, input, output, fault) ==
    LET f1 == IF ~FW_have_seen_type(fw, input)
                THEN FW_seen_type(FW_delayed_write(fw, input), input)
                ELSE fw
        f2 == IF ~FW_have_seen_type(f1, output)
                THEN FW_seen_type(FW_delayed_write(f1, output), output)
                ELSE f1
    IN IF IsSome(fault) /\ ~FW_have_seen_type(f2, Get(fault))
         THEN FW_delayed_write(FW_seen_type(f2, Get(fault)), Get(fault))
         ELSE f2

print_operation(fw, node) ==
    IF ~IsSome(node.name) THEN fw
    ELSE LET func_name == to_snake_case(Get(node.name))
             f1 == queue_port_types(fw, input_type_template(node),
                                    output_type_template(node),
                                    fault_type_template(node))
         IN FW_write(f1,
              FmtCat(Fmt(<<"\tfn {} (&self, ">>, <<func_name>>),
              FmtCat(input_template(node),
              FmtCat(Lit(") "),
              FmtCat(output_template(node), Lit(";\n"))))))

\* print_port_type up to its loop over the children; a portType without a
\* name returns right after check_section
port_type_begin(fw, node) ==
    LET f0 == check_section(fw, "PortTypes") IN
    IF ~IsSome(node.name) THEN f0
    ELSE FW_write(f0, Fmt(<<"pub trait {0} {{\n">>, <<to_pascal_case(Get(node.name))>>))

\* a faulty variant: the seen-set is not reset at the close
port_type_end_no_reset(fw) ==
    FW_flush_delayed_buffer(FW_write(fw, Lit("}\n\n")))

\* print_port_type after its loop over the children
port_type_end(fw) ==
    FW_reset_defined_types(FW_flush_delayed_buffer(FW_write(fw, Lit("}\n\n"))))

(***************************************************************************)
(* WSDL bindings.  A binding operation node: its name attribute and the    *)
(* name attribute of its first input, output and fault children (None when *)
(* it has no such child, Some(None) when the child has no name).           *)
(***************************************************************************)
S_Soap == <<"S","o","a","p">>

construct_soap_wrapper(soap_name, body_type) ==
    Fmt(<<"#[derive(Debug, Default, YaSerialize, YaDeserialize)] #[yaserde(root = \"Envelope\", ...)] pub struct {0}SoapEnvelope {{ ... pub header: Option<Header>, pub body: {1}, }}">>,
        <<soap_name, body_type>>)

\* the format! shared by the three wrapper branches of print_binding_operation
soap_wrapper(element_name, name) ==
    LET pascal_name == to_pascal_case(name)
        soap_name == S_Soap \o pascal_name
    IN FmtCat(Fmt(<<"#[derive(Debug, Default, YaSerialize, YaDeserialize)]\npub struct {0} {{\n\t#[yaserde(rename = \"{3}\", default)]\n\tpub body: {2}::{1},\n}}\n">>,
                  <<soap_name, pascal_name, PORTS_MOD, element_name>>),
       FmtCat(construct_soap_wrapper(pascal_name, soap_name), Lit("\n")))

NameSome(io) == IsSome(io) /\ IsSome(Get(io))

binding_input_template(node) ==
    IF NameSome(node.input)
      THEN Fmt(<<"{}: {}::{}">>, <<to_snake_case(Get(Get(node.input))), PORTS_MOD,
                                  to_pascal_case(Get(Get(node.input)))>>)
      ELSE EmptyString

soap_wrapper_in(node) ==
    IF NameSome(node.input)
      THEN soap_wrapper(Get(node.name), Get(Get(node.input)))
      ELSE EmptyString

binding_output_template(node) ==
    IF NameSome(node.output)
      THEN IF NameSome(node.fault)
             THEN Fmt(<<"-> Result<{2}::{0}, {2}::{1}>">>,
                      <<to_pascal_case(Get(Get(node.output))),
                        to_pascal_case(Get(Get(node.fault))), PORTS_MOD>>)
             ELSE Fmt(<<"-> {}::{}">>,
                      <<PORTS_MOD, to_pascal_case(Get(Get(node.output)))>>)
      ELSE EmptyString

soap_wrapper_out(node) ==
    IF NameSome(node.output)
      THEN soap_wrapper(Get(node.name), Get(Get(node.output)))
      ELSE EmptyString

print_binding_operation(fw, node) ==
    IF ~IsSome(node.name) THEN fw
    ELSE LET func_name == to_snake_case(Get(node.name))
             f1 == FW_write(fw,
                     FmtCat(Fmt(<<"\tfn {} (&self, ">>, <<func_name>>),
                     FmtCat(binding_input_template(node),
                     FmtCat(Lit(") "),
                     FmtCat(binding_output_template(node), Lit(" {{\n"))))))
             f2 == FW_write(f1, Lit("\tunimplemented!();\n"))
             f3 == FW_write(f2, Lit("}\n"))
             f4 == FW_delayed_write(f3, soap_wrapper_in(node))
         IN FW_delayed_write(f4, soap_wrapper_out(node))

print_default_constructor(fw, struct_name) ==
    FW_write(fw, Fmt(<<"impl Default for {0} {{\n\tfn default() -> Self {{\n\t\t{0}{{}}\n\t}}\n\t}}\n">>,
                     <<struct_name>>))

\* whether print_binding goes on to its loop over the children
binding_enters(node) == IsSome(node.name) /\ IsSome(node.type)

\* print_binding up to its loop over the children
binding_begin(fw, node) ==
    LET f0 == check_section(fw, "Bindings") IN
    IF ~binding_enters(node) THEN f0
    ELSE FW_write(f0, Fmt(<<"pub struct {0} {{}}\n\nimpl {2}::{1} for {0} {{\n">>,
                          <<to_pascal_case(Get(node.name)),
                            fetch_type(Get(node.type)), PORTS_MOD>>))

\* print_binding after its loop over the children
binding_end(fw, struct_name) ==
    FW_flush_delayed_buffer(
      print_default_constructor(FW_write(fw, Lit("}\n\n")), struct_name))

(***************************************************************************)
(* XSD elements and records.  An element node: its name, type, maxOccurs   *)
(* and nillable attributes and whether it has a complexType child.  A      *)
(* complexType node: its name attribute.  An extension node: its base      *)
(* attribute.                                                              *)
(***************************************************************************)
S_Vec == <<"V","e","c">>
S_Option == <<"O","p","t","i","o","n">>

\* a faulty variant: maxOccurs="1" does not count as repeated
as_vec_by_value(node) == IsSome(node.maxOccurs) /\ Get(node.maxOccurs) # <<"1">>

as_vec(node) == IsSome(node.maxOccurs)
as_option(node) == IsSome(node.nillable)

\* print_complex_element up to its look for a sequence child
complex_begin(fw, name) ==
    LET f1 == FW_write(inc_level(fw),
                       Lit("#[derive(Debug, Default, YaSerialize, YaDeserialize)]\n"))
    IN IF IsSome(f1.target_name_space)
         THEN FW_write(f1, Fmt(<<"#[yaserde(prefix = \"ns\", namespace = \"ns: {}\", rename = \"{}\", default)]\npub struct {} {{\n">>,
                               <<Get(f1.target_name_space), name, to_pascal_case(name)>>))
         ELSE FW_write(f1, Fmt(<<"#[yaserde(rename = \"{}\", default)]\npub struct {} {{\n">>,
                               <<name, to_pascal_case(name)>>))

\* a faulty variant: the level is not lowered after the closing text
complex_end_keeps_level(fw) == FW_write(fw, Lit("}\n\n"))

\* print_complex_element after its sequence and complexContent
complex_end(fw) == dec_level(FW_write(fw, Lit("}\n\n")))

print_extension(fw, node) ==
    IF ~IsSome(node.base) THEN fw
    ELSE FW_write(fw, Fmt(<<"\tpub {}: {},\n">>,
                          <<to_snake_case(fetch_type(Get(node.base))),
                            fetch_type(Get(node.base))>>))

\* print_complex_content up to the sequences it prints; extension is the
\* Option of its first extension child
complex_content_begin(fw, extension) ==
    IF IsSome(extension)
      THEN print_extension(FW_write(fw, Lit("\t#[yaserde(flatten)]\n")), Get(extension))
      ELSE fw

\* whether print_element goes on into print_complex_element
element_enters(node) == IsSome(node.name) /\ node.complex

\* print_element; for an element with a complexType child, up to
\* print_complex_element's look for a sequence child
print_element(fw, node) ==
    IF ~IsSome(node.name) THEN fw
    ELSE IF node.complex THEN complex_begin(fw, Get(node.name))
    ELSE IF ~IsSome(node.type) THEN fw
    ELSE LET element_name == Get(node.name)
             type_name == Get(node.type)
         IN IF fw.level = 0
              THEN FW_write(fw, Fmt(<<"pub type {} = {};\n\n">>,
                                    <<to_pascal_case(element_name), fetch_type(type_name)>>))
              ELSE LET f1 == IF IsSome(fw.target_name_space)
                               THEN FW_write(fw, Fmt(<<"\t#[yaserde(prefix = \"ns\", rename = \"{}\", default)]\n">>,
                                                     <<element_name>>))
                               ELSE FW_write(fw, Fmt(<<"\t#[yaserde(rename = \"{}\", default)]\n">>,
                                                     <<element_name>>))
                   IN IF as_vec(node) \/ as_option(node)
                        THEN FW_write(f1, Fmt(<<"\tpub {}: {}<{}>,\n">>,
                                 <<shield_reserved_names(to_snake_case(element_name)),
                                   IF as_vec(node) THEN S_Vec ELSE S_Option,
                                   fetch_type(type_name)>>))
                        ELSE FW_write(f1, Fmt(<<"\tpub {}: {},\n">>,
                                 <<shield_reserved_names(to_snake_case(element_name)),
                                   fetch_type(type_name)>>))

\* the complexType arm of print_xsd
print_complex_type(fw, node) ==
    IF IsSome(node.name) THEN complex_begin(fw, Get(node.name)) ELSE fw

(***************************************************************************)
(* The inputs: the nodes a document of the model may contain.              *)
(***************************************************************************)
N_a_b == <<"a","_","b">>           \* PascalCase AB
N_a_dash_b == <<"a","-","b">>      \* PascalCase AB as well
N_c == <<"c">>
N_op == <<"o","p">>
N_P == <<"P">>
M_t_m == <<"t",":","m">>           \* a qualified message reference
M_n == <<"n">>
E_xs_int == <<"x","s",":","i","n","t">>
Uri == <<"u">>

NameMsg(n, m) == Some([name |-> n, message |-> m])

PortInputs == {None, NameMsg(Some(N_a_b), Some(M_t_m)),
               NameMsg(Some(N_a_dash_b), Some(M_t_m)),
               NameMsg(None, Some(M_t_m))}
PortOutputs == {None, NameMsg(Some(N_c), Some(M_t_m)),
                NameMsg(Some(N_a_b), Some(M_t_m))}
PortFaults == {None, NameMsg(Some(N_c), Some(M_n))}
OperationNodes ==
    [name : {None, Some(N_op)}, input : PortInputs,
     output : PortOutputs, fault : PortFaults]
PortTypeNodes == [name : {None, Some(N_P)}]

BindingIOs == {None, Some(None), Some(Some(N_a_b))}
BindingOperationNodes ==
    [name : {None, Some(N_op)}, input : BindingIOs,
     output : {None, Some(Some(N_c))}, fault : {None, Some(Some(N_a_b))}]
BindingNodes == [name : {None, Some(N_P)}, type : {None, Some(M_t_m)}]

PartNodes == [name : {None, Some(N_a_b)}, element : {None, Some(E_xs_int)}]
PartLists == {<<>>} \cup {<<p>> : p \in PartNodes}
                \cup {<<p, q>> : p \in PartNodes,
                                 q \in {[name |-> Some(N_c), element |-> Some(M_t_m)]}}
MessageNodes == [name : {None, Some(N_c), Some(N_a_b)}, parts : PartLists]
\* the messages of a Spec document
RunMessageNodes == [name : {None, Some(N_c)},
                    parts : {<<[name |-> Some(N_a_b), element |-> Some(E_xs_int)]>>}]

V_1 == <<"1">>
V_unbounded == <<"u","n","b","o","u","n","d","e","d">>
V_true == <<"t","r","u","e">>
V_false == <<"f","a","l","s","e">>

El(name, type, maxOccurs, nillable, complex) ==
    [name |-> name, type |-> type, maxOccurs |-> maxOccurs,
     nillable |-> nillable, complex |-> complex]
\* the elements of a SpecTypes document
ElementNodes ==
    {El(Some(N_a_b), Some(E_xs_int), m, n, FALSE) :
        m \in {None, Some(V_1), Some(V_unbounded)},
        n \in {None, Some(V_true), Some(V_false)}}
    \cup {El(None, Some(E_xs_int), Some(V_1), None, FALSE),
          El(Some(N_a_b), None, Some(V_1), None, FALSE),
          El(Some(N_c), None, None, None, TRUE),
          El(Some(N_c), Some(E_xs_int), Some(V_1), None, TRUE),
          El(None, None, None, None, TRUE)}
ComplexTypeNodes == [name : {None, Some(N_c)}]
ExtensionNodes == {None, Some([base |-> None]), Some([base |-> Some(M_t_m)])}

\* the nodes of a SpecWalk document
WalkElementNodes == {El(Some(N_a_b), Some(E_xs_int), None, None, FALSE),
                     El(None, Some(E_xs_int), None, None, FALSE),
                     El(Some(N_c), None, None, None, TRUE),
                     El(None, None, None, None, TRUE)}
WalkOperationNodes ==
    [name : {None, Some(N_op)}, input : {NameMsg(Some(N_a_b), Some(M_t_m))},
     output : {NameMsg(Some(N_c), Some(M_t_m))}, fault : {None}]
WalkBindingNodes == {[name |-> None, type |-> Some(M_t_m)],
                     [name |-> Some(N_P), type |-> None],
                     [name |-> Some(N_P), type |-> Some(M_t_m)]}
WalkBindingOperationNodes ==
    [name : {None, Some(N_op)}, input : {Some(Some(N_a_b))},
     output : {Some(Some(N_c))}, fault : {None}]

ImportNodes == [schemaLocation : {None, Some(<<"f">>)}]
ReadOutcomes == {"ok", "unreadable", "malformed"}
Namespaces == {None, Some(Uri)}

(***************************************************************************)
(* The state machine.                                                      *)
(***************************************************************************)
FW == [current_section |-> current_section,
       level |-> level,
       target_name_space |-> target_name_space,
       mod_writers |-> mod_writers,
       writer |-> writer,
       scope |-> scope]

Install(fw) ==
    /\ current_section' = fw.current_section
    /\ level' = fw.level
    /\ target_name_space' = fw.target_name_space
    /\ mod_writers' = fw.mod_writers
    /\ writer' = fw.writer
    /\ scope' = fw.scope

\* a frame of the walker's call stack: the function running, the
\* print_when_done argument of a process_file_in_path frame, the struct_name
\* local of a print_binding frame
Frame(kind, print_when_done, name) ==
    [kind |-> kind, print_when_done |-> print_when_done, name |-> name]
Top == stack[Len(stack)]
Pop == SubSeq(stack, 1, Len(stack) - 1)
In(kind) == pc = "walk" /\ stack # <<>> /\ Top.kind = kind

NoScope == [index |-> 0, section |-> "Root", queued |-> <<>>, yielded |-> {},
            flushed |-> <<>>, closed |-> FALSE]
OpenScope(section) ==
    [index |-> scope.index + 1, section |-> section, queued |-> <<>>,
     yielded |-> {}, flushed |-> <<>>, closed |-> FALSE]

SectionOrder == <<"Root", "Types", "Messages", "PortTypes", "Bindings">>

\* history: the walker's traversal context
Context == [current_section |-> current_section, level |-> level,
            target_name_space |-> target_name_space]
NoImport == [open |-> <<>>, returned |-> None]

\* history: no handler has run yet
NoCall == [op |-> "none", node |-> <<>>, before |-> <<>>]
Max(a, b) == IF a >= b THEN a ELSE b
\* what a cursor's data has gained
Appended(old, new) == SubSeq(new.data, Len(old.data) + 1, Len(new.data))

\* history kept by every handler: the call and the state it started from; the
\* deepest level since the level was last 0; and, for the section the handler
\* wrote to, the text the construct stands for in visit order: what it wrote
\* to the level-0 buffer, and at a deferred flush the text it queued itself
History(op, node, flushes) ==
    /\ last' = [op |-> op, node |-> node, before |-> FW]
    /\ peak' = IF level' = 0 THEN 0 ELSE Max(peak, level')
    /\ expect_out' =
         LET s == current_section'
             delta == Appended(mod_writers[s].final_stage, mod_writers'[s].final_stage)
             own == IF flushes
                      THEN SubSeq(delta, 1, Len(delta) - Len(scope'.flushed))
                           \o scope'.queued
                      ELSE delta
         IN [expect_out EXCEPT ![s] = @ \o own]

InitWith(n) ==
    /\ current_section = "Root"
    /\ level = 0
    /\ mod_writers = init_mod_writers
    /\ writer = Some(<<>>)
    /\ target_name_space = None
    /\ pc = "init"
    /\ stack = <<>>
    /\ visited = {}
    /\ fuel = n
    /\ scope = NoScope
    /\ emit_log = <<>>
    /\ ref_out = [s \in Sections |-> <<>>]
    /\ last_msg = None
    /\ imports_done = 0
    /\ last = NoCall
    /\ peak = 0
    /\ expect_out = [s \in Sections |-> init_mod_writers[s].final_stage.data]
    /\ import_ctx = NoImport
    /\ ft_in = <<>>
    /\ ft_out = None

Init == InitWith(MaxNodes)

\* process_file_in_path up to its traversal: read_to_string(..).expect and
\* Document::parse(..).unwrap panic on an unreadable or malformed file
enter_file(outcome, print_when_done) ==
    IF outcome = "ok"
      THEN /\ pc' = "walk"
           /\ stack' = Append(stack, Frame("doc", print_when_done, <<>>))
      ELSE /\ pc' = "aborted"
           /\ stack' = stack

\* process_file: print_header, then process_file_in_path(file_name, true)
ProcessFile(outcome) ==
    /\ pc = "init"
    /\ Install(print_header(FW))
    /\ enter_file(outcome, TRUE)
    /\ History("header", <<>>, FALSE)
    /\ UNCHANGED <<last_msg, imports_done, visited, fuel, emit_log, ref_out, import_ctx, ft_in, ft_out>>

\* print: a definitions element among the descendants
EnterDefinitions ==
    /\ In("doc")
    /\ stack' = Append(stack, Frame("definitions", FALSE, <<>>))
    /\ UNCHANGED <<last, peak, expect_out, last_msg, imports_done, current_section, level, mod_writers, writer, target_name_space,
                   pc, visited, fuel, scope, emit_log, ref_out, import_ctx, ft_in, ft_out>>

LeaveDefinitions ==
    /\ In("definitions")
    /\ stack' = Pop
    /\ UNCHANGED <<last, peak, expect_out, last_msg, imports_done, current_section, level, mod_writers, writer, target_name_space,
                   pc, visited, fuel, scope, emit_log, ref_out, import_ctx, ft_in, ft_out>>

\* print_xsd up to its loop over the children: on a schema element among the
\* descendants, or on a types child of definitions
print_xsd_begin(fw, tns) ==
    [check_section(fw, "Types") EXCEPT !.target_name_space = tns]

EnterXsd(tns) ==
    /\ In("doc") \/ In("definitions")
    /\ Install(print_xsd_begin(FW, tns))
    /\ stack' = Append(stack, Frame("xsd", FALSE, <<>>))
    /\ History("xsd", tns, FALSE)
    /\ UNCHANGED <<last_msg, imports_done, pc, visited, fuel, emit_log, ref_out, import_ctx, ft_in, ft_out>>

LeaveXsd ==
    /\ In("xsd")
    /\ stack' = Pop
    /\ UNCHANGED <<last, peak, expect_out, last_msg, imports_done, current_section, level, mod_writers, writer, target_name_space,
                   pc, visited, fuel, scope, emit_log, ref_out, import_ctx, ft_in, ft_out>>

\* a faulty variant: an import prints when done, like the entry document
import_print_when_done_true == TRUE

\* the print_when_done argument import_file passes
import_print_when_done == FALSE

\* import_file: no schemaLocation returns, else process_file_in_path(name, false)
ImportFile(node, outcome) ==
    /\ In("xsd")
    /\ fuel > 0
    /\ fuel' = fuel - 1
    /\ IF IsSome(node.schemaLocation)
         THEN enter_file(outcome, import_print_when_done)
         ELSE UNCHANGED <<pc, stack>>
    /\ import_ctx' = IF IsSome(node.schemaLocation) /\ outcome = "ok"
                       THEN [import_ctx EXCEPT !.open = Append(@, Context)]
                       ELSE import_ctx
    /\ UNCHANGED <<last, peak, expect_out, last_msg, imports_done, current_section, level, mod_writers, writer, target_name_space,
                   visited, scope, emit_log, ref_out, ft_in, ft_out>>

\* print_element on a child of a schema, of a sequence or of a
\* complexContent; with a complexType child it enters print_complex_element
PrintElement(node) ==
    /\ In("xsd") \/ In("complex") \/ In("content")
    /\ fuel > 0
    /\ fuel' = fuel - 1
    /\ Install(print_element(FW, node))
    /\ stack' = IF element_enters(node)
                  THEN Append(stack, Frame("complex", FALSE, <<>>))
                  ELSE stack
    /\ History("element", node, FALSE)
    /\ UNCHANGED <<last_msg, imports_done, pc, visited, emit_log, ref_out, import_ctx, ft_in, ft_out>>

\* a complexType child of a schema
PrintComplexType(node) ==
    /\ In("xsd")
    /\ fuel > 0
    /\ fuel' = fuel - 1
    /\ Install(print_complex_type(FW, node))
    /\ stack' = IF IsSome(node.name)
                  THEN Append(stack, Frame("complex", FALSE, <<>>))
                  ELSE stack
    /\ History("complexType", node, FALSE)
    /\ UNCHANGED <<last_msg, imports_done, pc, visited, emit_log, ref_out, import_ctx, ft_in, ft_out>>

\* print_complex_element passes from its sequence to its complexContent
PrintComplexContent(extension) ==
    /\ In("complex")
    /\ fuel > 0
    /\ fuel' = fuel - 1
    /\ Install(complex_content_begin(FW, extension))
    /\ stack' = Append(Pop, Frame("content", FALSE, <<>>))
    /\ History("complexContent", extension, FALSE)
    /\ UNCHANGED <<last_msg, imports_done, pc, visited, emit_log, ref_out, import_ctx, ft_in, ft_out>>

\* print_complex_element writes its closing text and returns
ComplexClose ==
    /\ In("complex") \/ In("content")
    /\ Install(complex_end(FW))
    /\ stack' = Pop
    /\ History("complexEnd", <<>>, FALSE)
    /\ UNCHANGED <<last_msg, imports_done, pc, visited, fuel, emit_log, ref_out, import_ctx, ft_in, ft_out>>

PrintMessage(node) ==
    /\ In("definitions")
    /\ fuel > 0
    /\ fuel' = fuel - 1
    /\ Install(print_message(FW, node))
    /\ last_msg' = Some([node |-> node,
                         text |-> SubSeq(mod_writers'["Messages"].final_stage.data,
                                         Len(mod_writers["Messages"].final_stage.data) + 1,
                                         Len(mod_writers'["Messages"].final_stage.data))])
    /\ History("message", node, FALSE)
    /\ UNCHANGED <<imports_done, pc, stack, visited, emit_log, ref_out, import_ctx, ft_in, ft_out>>

PortTypeOpen(node) ==
    /\ In("definitions")
    /\ fuel > 0
    /\ fuel' = fuel - 1
    /\ IF IsSome(node.name)
         THEN /\ Install(port_type_begin([FW EXCEPT !.scope = OpenScope("PortTypes")], node))
              /\ stack' = Append(stack, Frame("portType", FALSE, <<>>))
         ELSE /\ Install(port_type_begin(FW, node))
              /\ stack' = stack
    /\ History("portType", node, FALSE)
    /\ UNCHANGED <<last_msg, imports_done, pc, visited, emit_log, ref_out, import_ctx, ft_in, ft_out>>

\* history: the non-empty alias lines an operation hands to queue_port_types
Yielded(node) ==
    IF ~IsSome(node.name) THEN {}
    ELSE ({input_type_template(node), output_type_template(node)}
            \cup {Get(f) : f \in {fault_type_template(node)} \ {None}})
         \ {EmptyString}

Operation(node) ==
    /\ In("portType")
    /\ fuel > 0
    /\ fuel' = fuel - 1
    /\ Install([print_operation(FW, node) EXCEPT !.scope.yielded = @ \cup Yielded(node)])
    /\ History("operation", node, FALSE)
    /\ UNCHANGED <<last_msg, imports_done, pc, stack, visited, emit_log, ref_out, import_ctx, ft_in, ft_out>>

PortTypeClose ==
    /\ In("portType")
    /\ Install(port_type_end(FW))
    /\ stack' = Pop
    /\ History("portTypeEnd", <<>>, TRUE)
    /\ UNCHANGED <<last_msg, imports_done, pc, visited, fuel, emit_log, ref_out, import_ctx, ft_in, ft_out>>

BindingOpen(node) ==
    /\ In("definitions")
    /\ fuel > 0
    /\ fuel' = fuel - 1
    /\ IF binding_enters(node)
         THEN /\ Install(binding_begin([FW EXCEPT !.scope = OpenScope("Bindings")], node))
              /\ stack' = Append(stack, Frame("binding", FALSE,
                                              to_pascal_case(Get(node.name))))
         ELSE /\ Install(binding_begin(FW, node))
              /\ stack' = stack
    /\ History("binding", node, FALSE)
    /\ UNCHANGED <<last_msg, imports_done, pc, visited, emit_log, ref_out, import_ctx, ft_in, ft_out>>

BindingOperation(node) ==
    /\ In("binding")
    /\ fuel > 0
    /\ fuel' = fuel - 1
    /\ Install(print_binding_operation(FW, node))
    /\ History("bindingOperation", node, FALSE)
    /\ UNCHANGED <<last_msg, imports_done, pc, stack, visited, emit_log, ref_out, import_ctx, ft_in, ft_out>>

BindingClose ==
    /\ In("binding")
    /\ Install(binding_end(FW, Top.name))
    /\ stack' = Pop
    /\ History("bindingEnd", <<>>, TRUE)
    /\ UNCHANGED <<last_msg, imports_done, pc, visited, fuel, emit_log, ref_out, import_ctx, ft_in, ft_out>>

(***************************************************************************)
(* The end of process_file_in_path: return, or the output loop over the    *)
(* section map.  A HashMap iterates in an order the hasher's random keys   *)
(* decide, so the loop takes the sections in any order.                    *)
(***************************************************************************)
\* a faulty variant: the footer is written through the walker's current section
iter_read_for_output_to_current(mws, cur, s) ==
    LET m == [mws EXCEPT ![cur] = MW_write(@, Lit("}\n\n"), 0)]
    IN [m EXCEPT ![s].final_stage = cursor_set_position(@, 0)]

\* one iteration's mw.read_for_output(): the section map after it
iter_read_for_output(mws, cur, s) ==
    [mws EXCEPT ![s] = MW_read_for_output(@)]

\* history: the text each section yields when the loop runs in SectionOrder
RECURSIVE RefRun(_, _, _, _)
RefRun(mws, cur, i, acc) ==
    IF i > Len(SectionOrder) THEN acc
    ELSE LET s == SectionOrder[i]
             m == iter_read_for_output(mws, cur, s)
         IN RefRun(m, cur, i + 1, [acc EXCEPT ![s] = cursor_rest(m[s].final_stage)])

EndDoc ==
    /\ In("doc")
    /\ IF Top.print_when_done
         THEN /\ pc' = "output"
              /\ visited' = {}
              /\ ref_out' = RefRun(mod_writers, current_section, 1, ref_out)
              /\ stack' = stack
              \* the entry document has ended: it holds no further construct
              /\ fuel' = IF Len(stack) = 1 THEN 0 ELSE fuel
              /\ imports_done' = imports_done
              /\ import_ctx' = import_ctx
         ELSE /\ stack' = Pop
              /\ imports_done' = imports_done + 1
              /\ import_ctx' =
                   IF import_ctx.open = <<>> THEN import_ctx
                   ELSE [open |-> SubSeq(import_ctx.open, 1, Len(import_ctx.open) - 1),
                         returned |-> Some([before |-> import_ctx.open[Len(import_ctx.open)],
                                            after |-> Context])]
              /\ UNCHANGED <<pc, visited, ref_out, fuel>>
    /\ UNCHANGED <<last, peak, expect_out, last_msg, current_section, level, mod_writers, writer, target_name_space,
                   scope, emit_log, ft_in, ft_out>>

\* a faulty variant: the writer is handed back after a successful copy only
hand_back_on_success_only(w, copy_ok) == IF copy_ok THEN Some(w) ELSE None

\* self.writer after an iteration that took the writer w: handed back after a
\* successful and after a failed copy alike
hand_back(w, copy_ok) == Some(w)

CopyErrors == Cardinality({i \in 1..Len(emit_log) : ~emit_log[i].ok})

\* how much of the reader a failing io::copy may have written before the error
ErrWritten(text) == {k \in {0, Len(text) - 1} : k >= 0}

\* one iteration of the loop on section s; n tokens reach the sink: all of
\* the reader when the copy succeeds, fewer when it fails
EmitSection(s, copy_ok) ==
    /\ pc = "output"
    /\ s \notin visited
    /\ copy_ok \/ (IsSome(writer) /\ CopyErrors < MaxCopyErrors)
    /\ \E n \in 0..Len(cursor_rest(MW_read_for_output(mod_writers[s]).final_stage)) :
       LET mws == iter_read_for_output(mod_writers, current_section, s)
           text == cursor_rest(mws[s].final_stage)
           ok == copy_ok
       IN /\ n \in (IF copy_ok THEN {Len(text)} ELSE ErrWritten(text))
          /\ mod_writers' = mws
          /\ writer' = IF IsSome(writer)
                         THEN hand_back(Get(writer) \o SubSeq(text, 1, n), ok)
                         ELSE writer
          /\ emit_log' = Append(emit_log,
                                [section |-> s, text |-> text,
                                 attempted |-> IsSome(writer),
                                 written |-> IF IsSome(writer) THEN n ELSE 0,
                                 ok |-> ok \/ ~IsSome(writer)])
    /\ visited' = visited \cup {s}
    /\ IF visited' = Sections
         THEN /\ stack' = Pop
              /\ pc' = IF Pop = <<>> THEN "done" ELSE "walk"
         ELSE UNCHANGED <<pc, stack>>
    /\ UNCHANGED <<last, peak, expect_out, last_msg, imports_done, current_section, level, target_name_space, fuel, scope,
                   ref_out, import_ctx, ft_in, ft_out>>

(***************************************************************************)
(* A call of fetch_type on its own.                                        *)
(***************************************************************************)
FetchType ==
    /\ ft_out = None
    /\ ft_out' = Some(fetch_type(ft_in))
    /\ UNCHANGED <<last, peak, expect_out, last_msg, imports_done, current_section, level, mod_writers, writer, target_name_space,
                   pc, stack, visited, fuel, scope, emit_log, ref_out, import_ctx, ft_in>>

TypePrefixes == {<<>>, <<"x","s",":">>, <<"x","s","d",":">>, <<"t","n","s",":">>}
TypeNames == {S_string, S_base64Binary, S_decimal, S_integer, S_int, S_long,
              S_short, S_boolean, S_date, S_time,
              <<"f","o","o">>, <<"f","o","o","_","b","a","r">>,
              <<"f","o","o","B","a","r">>, <<>>}
TypeInputs == {p \o n : p \in TypePrefixes, n \in TypeNames}

InitFetch ==
    /\ current_section = "Root"
    /\ level = 0
    /\ mod_writers = init_mod_writers
    /\ writer = Some(<<>>)
    /\ target_name_space = None
    /\ pc = "init"
    /\ stack = <<>>
    /\ visited = {}
    /\ fuel = 0
    /\ scope = NoScope
    /\ emit_log = <<>>
    /\ ref_out = [s \in Sections |-> <<>>]
    /\ last_msg = None
    /\ imports_done = 0
    /\ last = NoCall
    /\ peak = 0
    /\ expect_out = [s \in Sections |-> init_mod_writers[s].final_stage.data]
    /\ import_ctx = NoImport
    /\ ft_in \in TypeInputs
    /\ ft_out = None

(***************************************************************************)
(* Specifications.                                                         *)
(***************************************************************************)
\* documents whose definitions hold portTypes only
NextPorts ==
    \/ \E o \in ReadOutcomes : ProcessFile(o)
    \/ EnterDefinitions
    \/ LeaveDefinitions
    \/ \E n \in PortTypeNodes : PortTypeOpen(n)
    \/ \E n \in OperationNodes : Operation(n)
    \/ PortTypeClose

SpecPorts == InitWith(MaxPortNodes) /\ [][NextPorts]_vars

\* documents whose definitions hold bindings only
NextBindings ==
    \/ \E o \in ReadOutcomes : ProcessFile(o)
    \/ EnterDefinitions
    \/ LeaveDefinitions
    \/ \E n \in BindingNodes : BindingOpen(n)
    \/ \E n \in BindingOperationNodes : BindingOperation(n)
    \/ BindingClose

SpecBindings == InitWith(MaxBindingNodes) /\ [][NextBindings]_vars

\* documents whose definitions hold messages only
NextMessages ==
    \/ \E o \in ReadOutcomes : ProcessFile(o)
    \/ EnterDefinitions
    \/ LeaveDefinitions
    \/ \E n \in MessageNodes : PrintMessage(n)

SpecMessages == InitWith(MaxMessageNodes) /\ [][NextMessages]_vars

\* whole runs, output loop included, over documents of messages, schemas
\* and imports
Next ==
    \/ \E o \in ReadOutcomes : ProcessFile(o)
    \/ EnterDefinitions
    \/ LeaveDefinitions
    \/ EnterXsd(None)
    \/ LeaveXsd
    \/ \E n \in ImportNodes, o \in ReadOutcomes : ImportFile(n, o)
    \/ \E n \in RunMessageNodes : PrintMessage(n)
    \/ EndDoc
    \/ \E s \in Sections, ok \in BOOLEAN : EmitSection(s, ok)

Spec == Init /\ [][Next]_vars

\* documents of schemas: elements, records and records within records
NextTypes ==
    \/ \E o \in ReadOutcomes : ProcessFile(o)
    \/ \E tns \in Namespaces : EnterXsd(tns)
    \/ LeaveXsd
    \/ \E n \in ElementNodes : PrintElement(n)
    \/ \E n \in ComplexTypeNodes : PrintComplexType(n)
    \/ \E e \in ExtensionNodes : PrintComplexContent(e)
    \/ ComplexClose

SpecTypes == InitWith(MaxTypeNodes) /\ [][NextTypes]_vars

\* documents of every construct the walker handles, without the output loop
NextWalk ==
    \/ \E o \in ReadOutcomes : ProcessFile(o)
    \/ EnterDefinitions
    \/ LeaveDefinitions
    \/ EnterXsd(None)
    \/ LeaveXsd
    \/ \E n \in ImportNodes, o \in ReadOutcomes : ImportFile(n, o)
    \/ EndDoc
    \/ \E n \in RunMessageNodes : PrintMessage(n)
    \/ \E n \in PortTypeNodes : PortTypeOpen(n)
    \/ \E n \in WalkOperationNodes : Operation(n)
    \/ PortTypeClose
    \/ \E n \in WalkBindingNodes : BindingOpen(n)
    \/ \E n \in WalkBindingOperationNodes : BindingOperation(n)
    \/ BindingClose
    \/ \E n \in WalkElementNodes : PrintElement(n)
    \/ \E n \in ComplexTypeNodes : PrintComplexType(n)
    \/ PrintComplexContent(None)
    \/ ComplexClose

SpecWalk == InitWith(MaxWalkNodes) /\ [][NextWalk]_vars

\* documents of schemas with target namespaces, records, imports and, in
\* the imported files, messages
NextImports ==
    \/ \E o \in ReadOutcomes : ProcessFile(o)
    \/ EnterDefinitions
    \/ LeaveDefinitions
    \/ \E tns \in Namespaces : EnterXsd(tns)
    \/ LeaveXsd
    \/ \E n \in ImportNodes, o \in ReadOutcomes : ImportFile(n, o)
    \/ EndDoc
    \/ \E n \in RunMessageNodes : PrintMessage(n)
    \/ \E n \in ComplexTypeNodes : PrintComplexType(n)
    \/ ComplexClose

SpecImports == InitWith(MaxImportNodes) /\ [][NextImports]_vars

NextFetch == FetchType

SpecFetch == InitFetch /\ [][NextFetch]_vars

(***************************************************************************)
(* Properties.                                                             *)
(***************************************************************************)
Count(x, seq) == Cardinality({i \in 1..Len(seq) : seq[i] = x})
JustClosed(section) == scope.closed /\ scope.section = section
Sink == Get(writer)

\* C1: the flush at the close of an interface appends to the Interfaces
\* section exactly the alias lines queued during that interface's own
\* operations, and nothing an earlier interface queued.
C1_FlushAppendsOwnAliasesOnly ==
    JustClosed("PortTypes") => scope.flushed = scope.queued

\* Within an interface every alias line its operations yield is queued
\* exactly once (the part of C2 that does not depend on the flush).
QueuedOncePerInterface ==
    scope.section = "PortTypes" =>
        \A line \in scope.yielded : Count(line, scope.queued) = 1

\* C2: every alias line yielded by the operations of an interface, however
\* many of them yield it, appears exactly once in the text flushed for that
\* interface.
C2_AliasOncePerInterfaceFlush ==
    JustClosed("PortTypes") =>
        \A line \in scope.yielded : Count(line, scope.flushed) = 1

\* C3: the flush at the close of a binding appends to the Bindings section
\* exactly the wrapper records that binding's operations queued, once each,
\* and none an earlier binding queued.
C3_FlushAppendsOwnWrappersOnly ==
    JustClosed("Bindings") => scope.flushed = scope.queued

\* the target type the mapping table gives a primitive name
TableNames == {S_string, S_decimal, S_integer, S_int, S_long, S_short,
               S_boolean, S_date, S_time}
TableTarget(name) ==
    CASE name = S_string -> T_String
      [] name = S_decimal -> T_f64
      [] name \in {S_integer, S_int, S_long} -> T_u64
      [] name = S_short -> T_u8
      [] name = S_boolean -> T_bool
      [] name \in {S_date, S_time} -> T_SystemTime

\* C4: for every primitive name of the mapping table, bare or behind any
\* namespace prefix, fetch_type returns the table's target type.
C4_PrimitiveMapping ==
    IsSome(ft_out) =>
        \A p \in TypePrefixes, n \in TableNames :
            ft_in = p \o n => Get(ft_out) = TableTarget(n)

\* C5: whatever order the section map is iterated in, the output starts with
\* the preamble (the Root section's text).
C5_PreambleFirst ==
    (IsSome(writer) /\ CopyErrors = 0 /\ Sink # <<>>) => Head(Sink) = Preamble

\* C6: the finalized text of each section is the same whatever order the
\* section map is iterated in: it is the text the section has when the loop
\* runs in the reference order.
C6_SectionContentDeterministic ==
    \A i \in 1..Len(emit_log) : emit_log[i].text = ref_out[emit_log[i].section]

C6_Witness ==
    /\ pc = "done"
    /\ emit_log[1].section = "Bindings"
    /\ emit_log[2].section = "Messages"
    /\ emit_log[5].section = "Root"
    /\ Len(emit_log[2].text) > 4

\* what the output loop has put into the sink, by its log
RECURSIVE Copied(_)
Copied(log) ==
    IF log = <<>> THEN <<>>
    ELSE Copied(SubSeq(log, 1, Len(log) - 1))
         \o SubSeq(log[Len(log)].text, 1, log[Len(log)].written)

\* C7: nothing reaches the sink before the entry document and all its
\* imports are traversed (the output loop runs in the entry document's frame
\* only, never while an import is processed); in the loop each section is
\* finalized and copied once, and at the end every section has been.
C7_OutputOnlyAfterTraversal ==
    /\ pc \in {"init", "walk", "aborted"} => (Sink = <<>> /\ emit_log = <<>>)
    /\ pc = "output" => Len(stack) = 1
    /\ Sink = Copied(emit_log)
    /\ \A i \in 1..Len(emit_log) :
         /\ \A j \in 1..Len(emit_log) : emit_log[j].section = emit_log[i].section => j = i
         /\ emit_log[i].attempted
         /\ emit_log[i].ok => emit_log[i].written = Len(emit_log[i].text)
         /\ emit_log[i].section # "Root" => emit_log[i].text[Len(emit_log[i].text)] = Lit("}\n\n")
    /\ {emit_log[i].section : i \in 1..Len(emit_log)} = visited
    /\ pc = "done" => visited = Sections

C7_Witness ==
    /\ pc = "done"
    /\ imports_done >= 1
    /\ CopyErrors = 0
    /\ Len(mod_writers["Messages"].final_stage.data) > 4
    /\ Len(Sink) > 14

\* C8: when the entry file or any imported file is unreadable or malformed
\* the run aborts and the sink has received nothing.
C8_AbortWritesNothing ==
    pc = "aborted" => (IsSome(writer) /\ Sink = <<>>)

C8_Witness ==
    /\ pc = "aborted"
    /\ Len(stack) >= 2
    /\ Len(mod_writers["Messages"].final_stage.data) > 4

\* C9: a failing copy does not end the loop: the writer is handed back after
\* every iteration, so every later section's copy is attempted, and the loop
\* ends with every section attempted.
C9_CopyFailureContinues ==
    /\ IsSome(writer)
    /\ \A i \in 1..Len(emit_log) : emit_log[i].attempted
    /\ pc = "done" => {emit_log[i].section : i \in 1..Len(emit_log)} = Sections

C9_Witness ==
    /\ pc = "done"
    /\ ~emit_log[1].ok
    /\ emit_log[2].ok /\ emit_log[2].written = Len(emit_log[2].text)
    /\ emit_log[5].attempted

FieldPieces == <<"\tpub {}: {}::{},\n">>
FieldCount(text) == Cardinality({i \in 1..Len(text) : text[i].k = FieldPieces})
FirstPartComplete(node) ==
    /\ node.parts # <<>>
    /\ IsSome(node.parts[1].name)
    /\ IsSome(node.parts[1].element)
FirstPartField(node) ==
    Fmt(FieldPieces,
        <<shield_reserved_names(to_snake_case(Get(node.parts[1].name))),
          TYPES_MOD, fetch_type(Get(node.parts[1].element))>>)

\* C10 as stated: every named message yields a wrapper record with exactly
\* one field, whatever attributes its first part carries.
C10_ExactlyOneField ==
    (IsSome(last_msg) /\ IsSome(Get(last_msg).node.name)) =>
        FieldCount(Get(last_msg).text) = 1

\* C10 amended: a named message yields a wrapper record with at most one
\* field, derived from its first part child only: one field when the first
\* part carries both name and element, none when there is no part or the
\* first part lacks either; a later part never contributes.
C10_FieldFromFirstPartOnly ==
    (IsSome(last_msg) /\ IsSome(Get(last_msg).node.name)) =>
        LET node == Get(last_msg).node
            text == Get(last_msg).text
        IN IF FirstPartComplete(node)
             THEN /\ FieldCount(text) = 1
                  /\ \E i \in 1..Len(text) : text[i] = FirstPartField(node)
             ELSE FieldCount(text) = 0

C10_Witness ==
    /\ IsSome(last_msg)
    /\ IsSome(Get(last_msg).node.name)
    /\ Len(Get(last_msg).node.parts) = 2
    /\ FirstPartComplete(Get(last_msg).node)
    /\ FieldCount(Get(last_msg).text) = 1

\* the text the last handler added where a plain write is routed: the
\* level-0 buffer of the section it started in when it started at level 0,
\* else the stack entry of its starting level
LastWritten ==
    LET b == last.before
        s == b.current_section
    IN IF b.level = 0
         THEN Appended(b.mod_writers[s].final_stage, mod_writers[s].final_stage)
         ELSE Appended(b.mod_writers[s].buffers[b.level], mod_writers[s].buffers[b.level])

WrappedPieces == <<"\tpub {}: {}<{}>,\n">>
PlainPieces == <<"\tpub {}: {},\n">>
AliasPieces == <<"pub type {} = {};\n\n">>
HasWrapped(text, wrapper) ==
    \E i \in 1..Len(text) : text[i].k = WrappedPieces /\ text[i].args[2] = wrapper
LastTypedElement ==
    last.op = "element" /\ IsSome(last.node.name) /\ IsSome(last.node.type)
\* the field line the attributes of a typed element call for
FieldFor(node) ==
    LET fname == shield_reserved_names(to_snake_case(Get(node.name)))
        ftype == fetch_type(Get(node.type))
    IN IF IsSome(node.maxOccurs) THEN Fmt(WrappedPieces, <<fname, S_Vec, ftype>>)
       ELSE IF IsSome(node.nillable) THEN Fmt(WrappedPieces, <<fname, S_Option, ftype>>)
       ELSE Fmt(PlainPieces, <<fname, ftype>>)

\* C11 as stated: every typed element that carries maxOccurs, whatever its
\* value, yields a field wrapped as Vec, and every typed element that
\* carries nillable yields a field wrapped as Option.
C11_PresenceOnlyWrapping ==
    LastTypedElement =>
        /\ IsSome(last.node.maxOccurs) => HasWrapped(LastWritten, S_Vec)
        /\ IsSome(last.node.nillable) => HasWrapped(LastWritten, S_Option)

\* C11 amended: a typed element without a complexType child, processed at a
\* level above 0, yields its attribute line and one field: wrapped as Vec
\* when maxOccurs is present, whatever its value and whether or not nillable
\* is present too; wrapped as Option when nillable is present and maxOccurs
\* is not; bare otherwise.  At level 0 it yields an alias of the bare type.
C11_WrappingOfFields ==
    (LastTypedElement /\ ~last.node.complex) =>
        IF last.before.level > 0
          THEN /\ Len(LastWritten) = 2
               /\ LastWritten[2] = FieldFor(last.node)
          ELSE LastWritten = <<Fmt(AliasPieces,
                                   <<to_pascal_case(Get(last.node.name)),
                                     fetch_type(Get(last.node.type))>>)>>

C11_Witness ==
    /\ LastTypedElement /\ ~last.node.complex
    /\ last.before.level = 2
    /\ last.node.maxOccurs = Some(V_1)
    /\ last.node.nillable = Some(V_false)
    /\ HasWrapped(LastWritten, S_Vec)

AliasFor(node) ==
    Fmt(AliasPieces, <<to_pascal_case(Get(node.name)), fetch_type(Get(node.type))>>)

\* C12: an element with a name and a type and no complexType child,
\* processed at level 0, appends exactly one alias statement to the Types
\* section and nothing else anywhere; processed at a level above 0 it
\* appends its attribute line and a field, and never an alias.
C12_TopLevelElementIsAlias ==
    (LastTypedElement /\ ~last.node.complex) =>
        IF last.before.level = 0
          THEN /\ Appended(last.before.mod_writers["Types"].final_stage,
                           mod_writers["Types"].final_stage) = <<AliasFor(last.node)>>
               /\ mod_writers = [last.before.mod_writers EXCEPT
                                   !["Types"].final_stage = mod_writers["Types"].final_stage]
          ELSE /\ Len(LastWritten) = 2
               /\ LastWritten[2].k \in {WrappedPieces, PlainPieces}
               /\ \A i \in 1..2 : LastWritten[i].k # AliasPieces
               /\ \A s \in Sections :
                     mod_writers[s].final_stage = last.before.mod_writers[s].final_stage

HasNameMsg(io) == IsSome(io) /\ IsSome(io[1].name) /\ IsSome(io[1].message)
AliasOf(io) ==
    Fmt(<<"pub type {} = {}::{};\n">>,
        <<to_pascal_case(io[1].name[1]), MESSAGES_MOD, fetch_type(io[1].message[1])>>)
\* the alias lines the claim has an operation queue, in order
AliasesDue(node) ==
    (IF HasNameMsg(node.input) THEN <<AliasOf(node.input)>> ELSE <<>>)
    \o (IF HasNameMsg(node.output) THEN <<AliasOf(node.output)>> ELSE <<>>)
    \o (IF HasNameMsg(node.output) /\ HasNameMsg(node.fault)
          THEN <<AliasOf(node.fault)>> ELSE <<>>)
\* the lines of c not seen before and not earlier in c, in order
RECURSIVE FirstTime(_, _, _)
FirstTime(c, seen, i) ==
    IF i > Len(c) THEN <<>>
    ELSE (IF InSeq(c[i], seen) \/ InSeq(c[i], SubSeq(c, 1, i - 1))
            THEN <<>> ELSE <<c[i]>>)
         \o FirstTime(c, seen, i + 1)
\* the signature line the claim has an operation write
SignatureDue(node) ==
    [k |-> <<"\tfn {} (&self, ">>
           \o (IF HasNameMsg(node.input) THEN <<"{}: {}">> ELSE <<>>)
           \o <<") ">>
           \o (IF ~HasNameMsg(node.output) THEN <<>>
               ELSE IF HasNameMsg(node.fault) THEN <<"-> Result<{0}, {1}>">>
               ELSE <<"-> {}">>)
           \o <<";\n">>,
     args |-> <<to_snake_case(node.name[1])>>
           \o (IF HasNameMsg(node.input)
                 THEN <<to_snake_case(node.input[1].name[1]),
                        to_pascal_case(node.input[1].name[1])>>
                 ELSE <<>>)
           \o (IF ~HasNameMsg(node.output) THEN <<>>
               ELSE <<to_pascal_case(node.output[1].name[1])>>
                    \o (IF HasNameMsg(node.fault)
                          THEN <<to_pascal_case(node.fault[1].name[1])>> ELSE <<>>))]
LastNamedOperation == last.op = "operation" /\ IsSome(last.node.name)

\* C13: a named operation writes one signature line: one parameter when its
\* input has name and message, a two-outcome result over (output, fault)
\* when both are present, the output alias when only the output is, an
\* empty return otherwise.  It queues the input alias, the output alias and,
\* only with an output, the fault alias: each is appended to the deferred
\* queue unless the interface has seen it already, and each is in the queue
\* and the seen-set afterwards; with no output nothing but the input alias
\* is queued, also when a fault is present.
C13_OperationSignature ==
    LastNamedOperation =>
        LET node == last.node
            old == last.before.mod_writers["PortTypes"]
            new == mod_writers["PortTypes"]
            due == AliasesDue(node)
        IN /\ Appended(old.final_stage, new.final_stage) = <<SignatureDue(node)>>
           /\ Appended(old.delayed_buffer, new.delayed_buffer)
                = FirstTime(due, old.defined_types, 1)
           /\ \A i \in 1..Len(due) :
                 /\ InSeq(due[i], new.delayed_buffer.data)
                 /\ InSeq(due[i], new.defined_types)

C13_Witness ==
    /\ LastNamedOperation
    /\ HasNameMsg(last.node.input) /\ HasNameMsg(last.node.output)
    /\ HasNameMsg(last.node.fault)
    /\ Len(Appended(last.before.mod_writers["PortTypes"].delayed_buffer,
                    mod_writers["PortTypes"].delayed_buffer)) = 3
    /\ last.before.mod_writers["PortTypes"].defined_types # <<>>

\* C14 as stated: for every section, the nested-buffer stack has at most as
\* many entries as the current nesting level.
C14_StackWithinLevel ==
    \A s \in Sections : Len(mod_writers[s].buffers) <= mod_writers[s].level

\* C14 amended: the stack of every section other than the current one is
\* empty; the current section's stack has exactly as many entries as the
\* deepest level reached since the level was last 0, so at least the current
\* level, none at level 0, and more than the level once it has been lowered
\* without reaching 0.
C14_StackWithinPeak ==
    \A s \in Sections :
        IF s = current_section
          THEN /\ mod_writers[s].level = level
               /\ Len(mod_writers[s].buffers) = peak
               /\ level <= peak
               /\ level = 0 => peak = 0
          ELSE mod_writers[s].buffers = <<>>

C14_Witness ==
    /\ level = 1
    /\ last.op = "complexEnd" /\ last.before.level = 2
    /\ Len(mod_writers[current_section].buffers) = 2

\* the data of the buffers n, n-1, .. 1 of a stack, in that order
RECURSIVE ConcatDown(_, _)
ConcatDown(bufs, n) ==
    IF n = 0 THEN <<>> ELSE bufs[n].data \o ConcatDown(bufs, n - 1)
\* the stack as it is when the record that returns to level 0 has written
\* its closing text
StagedAtClose(mw) ==
    [mw.buffers EXCEPT ![1].data = @ \o <<Lit("}\n\n")>>]
ReturnedToZero == last.op = "complexEnd" /\ level = 0

\* C15: when the level of the current section returns to 0 its stack becomes
\* empty and its level-0 buffer is its previous content followed by the
\* stack's buffers from the deepest to the shallowest: nested records before
\* the enclosing record, nothing lost, nothing twice.
C15_LifoUnwind ==
    ReturnedToZero =>
        LET old == last.before.mod_writers[current_section]
            new == mod_writers[current_section]
        IN /\ new.buffers = <<>>
           /\ new.final_stage.data
                = old.final_stage.data
                  \o ConcatDown(StagedAtClose(old), Len(old.buffers))
           /\ new.final_stage.pos = Len(new.final_stage.data)

C15_Witness ==
    /\ ReturnedToZero
    /\ Len(last.before.mod_writers[current_section].buffers) = 2
    /\ last.before.mod_writers[current_section].buffers[2].data # <<>>
    /\ Len(last.before.mod_writers[current_section].buffers[1].data) > 2
    /\ Len(last.before.mod_writers[current_section].final_stage.data) > 3

\* C16: every step of the walker (a staging operation, a section switch, or
\* a handler made of both) leaves the level-0 buffer, the nested stack, the
\* deferred queue and the seen-set of every section other than the one
\* current after the step unchanged.
C16_SectionIsolation ==
    [][\A s \in Sections \ {current_section'} :
          /\ mod_writers'[s].final_stage = mod_writers[s].final_stage
          /\ mod_writers'[s].buffers = mod_writers[s].buffers
          /\ mod_writers'[s].delayed_buffer = mod_writers[s].delayed_buffer
          /\ mod_writers'[s].defined_types = mod_writers[s].defined_types]_vars

C16_Witness ==
    /\ last.op = "message" /\ IsSome(last.node.name)
    /\ last.before.current_section = "PortTypes"
    /\ current_section = "Messages"
    /\ mod_writers["PortTypes"].delayed_buffer.data # <<>>
    /\ Len(mod_writers["PortTypes"].final_stage.data) > 3
    /\ mod_writers["Messages"].final_stage # last.before.mod_writers["Messages"].final_stage

\* the last handler wrote at the level it started at, and wrote something
LastWroteInPlace ==
    \/ LastTypedElement /\ ~last.node.complex
    \/ last.op = "complexContent" /\ IsSome(last.node)
\* the last handler entered a record: its opening text is written one level up
LastEnteredRecord ==
    \/ last.op = "element" /\ IsSome(last.node.name) /\ last.node.complex
    \/ last.op = "complexType" /\ IsSome(last.node.name)

\* C17: no plain write is dropped.  The current section's stack has at least
\* as many entries as the level, so ModWriter::write always finds its
\* target; a write at level 0 lands at the end of the current section's
\* level-0 buffer and leaves the stack alone, a write at level L > 0 lands at
\* the end of stack entry L-1 and leaves the level-0 buffer and the other
\* entries alone.
C17_WritesAreRouted ==
    /\ level >= 0
    /\ mod_writers[current_section].level = level
    /\ Len(mod_writers[current_section].buffers) >= level
    /\ LastWroteInPlace =>
         LET old == last.before.mod_writers[current_section]
             new == mod_writers[current_section]
             l == last.before.level
         IN /\ LastWritten # <<>>
            /\ l = 0 => new.buffers = old.buffers
            /\ l > 0 => /\ new.final_stage = old.final_stage
                        /\ new.buffers = [old.buffers EXCEPT ![l] = new.buffers[l]]
    /\ LastEnteredRecord =>
         LET old == last.before.mod_writers[current_section]
             new == mod_writers[current_section]
             l == last.before.level + 1
             was == IF l <= Len(old.buffers) THEN old.buffers[l].data ELSE <<>>
         IN /\ level = l
            /\ Len(new.buffers[l].data) = Len(was) + 2
            /\ SubSeq(new.buffers[l].data, 1, Len(was)) = was
            /\ new.final_stage = old.final_stage

C17_Witness ==
    /\ LastWroteInPlace
    /\ last.op = "complexContent"
    /\ last.before.level = 2
    /\ Len(LastWritten) = 2
    /\ Len(mod_writers[current_section].buffers[1].data) > 2

\* C18: in every section the level-0 buffer is the text of the section's
\* constructs in the order they were visited, each construct's text (what
\* it wrote, its nested records, the deferred text it queued) in one piece:
\* all text of a construct visited earlier precedes all text of one visited
\* later.
C18_OrderWithinSection ==
    pc = "walk" =>
        \A s \in Sections : mod_writers[s].final_stage.data = expect_out[s]

\* the records print_complex_element has open on the call stack
RECURSIVE OpenRecords(_)
OpenRecords(st) ==
    IF st = <<>> THEN 0
    ELSE OpenRecords(SubSeq(st, 1, Len(st) - 1))
         + (IF st[Len(st)].kind \in {"complex", "content"} THEN 1 ELSE 0)

\* C19: the level is the number of records print_complex_element has open:
\* entering a record raises it by one, returning from it lowers it by one
\* back to the level it was entered with, so between top-level constructs it
\* is 0, and dec_level only ever runs at a level of 1 or more.
C19_LevelBalanced ==
    /\ level = OpenRecords(stack)
    /\ (In("xsd") \/ In("doc") \/ In("definitions")) => level = 0
    /\ (In("complex") \/ In("content")) => level >= 1
    /\ LastEnteredRecord =>
         /\ level = last.before.level + 1
         /\ mod_writers[current_section].level = level
    /\ last.op = "complexEnd" =>
         /\ last.before.level >= 1
         /\ level = last.before.level - 1
         /\ mod_writers[current_section].level = level

C19_Witness ==
    /\ last.op = "complexEnd"
    /\ level = 0
    /\ In("xsd")
    /\ Len(last.before.mod_writers[current_section].buffers) = 3

\* the last handler was given a node that lacks a required attribute
LastSkipped ==
    \/ /\ last.op \in {"element", "message", "portType", "operation",
                       "bindingOperation", "complexType"}
       /\ ~IsSome(last.node.name)
    \/ /\ last.op = "binding"
       /\ ~IsSome(last.node.name) \/ ~IsSome(last.node.type)

\* C20: a handler given an element, message, interface, operation, binding
\* operation or top-level complexType without a name, or a binding without a
\* name or a type, leaves every section's level-0 buffer, stack, deferred
\* queue and seen-set as they were, and the level as it was.
C20_SilentSkip ==
    LastSkipped =>
        /\ mod_writers = last.before.mod_writers
        /\ level = last.before.level

C20_Witness ==
    /\ LastSkipped
    /\ last.op = "binding" /\ IsSome(last.node.name)
    /\ last.before.current_section = "PortTypes"
    /\ mod_writers["PortTypes"].delayed_buffer.data # <<>>
    /\ mod_writers["Bindings"].final_stage.data = init_mod_writers["Bindings"].final_stage.data

\* C21: the seen-set of the Interfaces section is empty whenever no named
\* interface is open, so it is empty when the operations of an interface
\* start, after any sequence of interfaces, bindings, messages and schema
\* constructs; no other section's seen-set ever holds anything; and the
\* only handler after which a seen-set is shorter than before is the close
\* of a named interface.
C21_SeenSetEmptyAtInterfaceStart ==
    /\ ~In("portType") => mod_writers["PortTypes"].defined_types = <<>>
    /\ (last.op = "portType" /\ IsSome(last.node.name)) =>
          mod_writers["PortTypes"].defined_types = <<>>
    /\ \A s \in Sections \ {"PortTypes"} : mod_writers[s].defined_types = <<>>
    /\ last.op \notin {"none", "portTypeEnd"} =>
          \A s \in Sections :
             Len(mod_writers[s].defined_types)
                >= Len(last.before.mod_writers[s].defined_types)
    /\ last.op = "portTypeEnd" =>
          /\ last.before.current_section = "PortTypes"
          /\ mod_writers["PortTypes"].defined_types = <<>>

C21_Witness ==
    /\ last.op = "portType" /\ IsSome(last.node.name)
    /\ In("portType")
    /\ mod_writers["PortTypes"].delayed_buffer.data # <<>>
    /\ mod_writers["PortTypes"].defined_types = <<>>

\* C22: when import_file returns, the current section, the nesting level
\* and the target namespace are what they were just before the import,
\* whatever the imported document held.
C22_ImportKeepsContext ==
    IsSome(import_ctx.returned) =>
        Get(import_ctx.returned).after = Get(import_ctx.returned).before

\* the part of C22 that holds: the nesting level is 0 before an import and
\* 0 again when it returns
ImportKeepsLevel ==
    IsSome(import_ctx.returned) =>
        /\ Get(import_ctx.returned).before.level = 0
        /\ Get(import_ctx.returned).after.level = 0

\* the last handler was a deferred flush: the close of an interface or of a
\* binding
LastFlushed == last.op \in {"portTypeEnd", "bindingEnd"}

\* C23: the current section changes only while the nesting level is 0; in
\* every reachable state the walker's level is the level recorded in the
\* current section's ModWriter and every other section's recorded level is
\* 0; so every deferred flush runs at level 0 and appends the deferred
\* buffer to the end of the section's level-0 buffer, leaving the stack of
\* per-level buffers alone.
C23_LevelSharedWithCurrentSection ==
    /\ mod_writers[current_section].level = level
    /\ \A s \in Sections \ {current_section} : mod_writers[s].level = 0
    /\ (last.op # "none" /\ last.before.current_section # current_section) =>
          /\ last.before.level = 0
          /\ level = 0
    /\ LastFlushed =>
          LET old == last.before.mod_writers[current_section]
              new == mod_writers[current_section]
              d == old.delayed_buffer.data
              n == Len(new.final_stage.data)
          IN /\ last.before.level = 0
             /\ new.level = 0
             /\ new.buffers = old.buffers
             /\ scope.flushed = d
             /\ n >= Len(old.final_stage.data) + Len(d)
             /\ SubSeq(new.final_stage.data, n - Len(d) + 1, n) = d

C23_Witness ==
    /\ LastFlushed
    /\ last.op = "portTypeEnd"
    /\ scope.flushed # <<>>
    /\ Len(mod_writers["Types"].final_stage.data) > 3
    /\ current_section = "PortTypes"

\* the module header of a section and its closing footer; Root has neither
ModName(s) ==
    CASE s = "Types" -> TYPES_MOD
      [] s = "Messages" -> MESSAGES_MOD
      [] s = "PortTypes" -> PORTS_MOD
      [] s = "Bindings" -> BINDINGS_MOD
ModHeader(s) ==
    IF s = "Root" THEN <<>>
    ELSE <<Fmt(<<"pub mod {} {{\n">>, <<ModName(s)>>),
           Lit("use yaserde::{{YaSerialize, YaDeserialize}};\n\n"),
           Lit("use super::*;\n\n")>>
ModFooter(s) == IF s = "Root" THEN <<>> ELSE <<Lit("}\n\n")>>
ModOpenings(text) ==
    Cardinality({i \in 1..Len(text) : text[i].k = <<"pub mod {} {{\n">>})

\* in every state: each section's level-0 buffer starts with its module
\* header and holds no second one, and what the loop handed to the sink for
\* a section is that section's whole level-0 buffer
FramedAtStart ==
    /\ \A s \in Sections :
         LET text == mod_writers[s].final_stage.data
         IN /\ Len(text) >= Len(ModHeader(s))
            /\ SubSeq(text, 1, Len(ModHeader(s))) = ModHeader(s)
            /\ ModOpenings(text) = Len(ModFooter(s))
    /\ \A i \in 1..Len(emit_log) :
         emit_log[i].text = mod_writers[emit_log[i].section].final_stage.data

\* in every step: a section that is finalized gains its footer and nothing
\* else, which is the text handed to the sink; during the output loop every
\* other section, finalized before or not yet, keeps its text
FramedAtEnd ==
    \A s \in Sections :
       LET old == mod_writers[s].final_stage.data
           new == mod_writers'[s].final_stage.data
       IN /\ (s \in visited' /\ s \notin visited) =>
                /\ new = old \o ModFooter(s)
                /\ emit_log'[Len(emit_log')].section = s
                /\ emit_log'[Len(emit_log')].text = new
          /\ (pc = "output" /\ ~(s \in visited' /\ s \notin visited)) => new = old
          /\ s \in visited => new = old

\* C24: module framing.  In the final output each non-Root section is its
\* module header (written at construction, once), then its body, then one
\* footer appended when the section is finalized, also when the body is
\* empty; the Root section has no header and no footer; nothing is appended
\* to a section after its footer.
C24_ModuleFraming == []FramedAtStart /\ [][FramedAtEnd]_vars

C24_Witness ==
    /\ pc = "done"
    /\ CopyErrors = 0
    /\ mod_writers["Root"].final_stage.data = <<Preamble>>
    /\ Len(mod_writers["Messages"].final_stage.data) > 4
    /\ mod_writers["PortTypes"].final_stage.data
          = ModHeader("PortTypes") \o ModFooter("PortTypes")
    /\ \A i \in 1..5 : emit_log[i].text = mod_writers[emit_log[i].section].final_stage.data

====
